---- MODULE Spec2Model ----
(***************************************************************************)
(* A model of package ezjson (src/ezjson.go): the path-based property      *)
(* lookup GetPropertyWithType and the accessors built on it.               *)
(*                                                                         *)
(* A decoded JSON value (Go interface{}) is a record with a field kind:    *)
(*   nil -> "null", bool -> "bool", json.Number -> "number" (its text, a   *)
(*   sequence of one-character strings), string -> "string",               *)
(*   []interface{} -> "array", map[string]interface{} -> "object".         *)
(* A key of the variadic keys list is a record with a field t: "int",      *)
(* "string", "option" (type Option) or "other" (any other Go type).        *)
(***************************************************************************)
EXTENDS Integers, Sequences, FiniteSets, TLC

(* ------------------------------------------------------------ bounds --- *)
\* longest generated key list
MaxLen == 2
\* int keys are drawn from -1 .. MaxIdx
MaxIdx == 3

(* ------------------------------------------------------------ values --- *)
Null == [kind |-> "null"]
Bool(b) == [kind |-> "bool", b |-> b]
Num(t) == [kind |-> "number", text |-> t]
Str(s) == [kind |-> "string", s |-> s]
Arr(e) == [kind |-> "array", elems |-> e]
Obj(m) == [kind |-> "object", members |-> m]

\* type Option int; const ErrorOnNull Option = 1
ErrorOnNull == 1
\* an Option value the package defines no behaviour for
OtherOption == 2

IntKey(k) == [t |-> "int", v |-> k]
StrKey(s) == [t |-> "string", v |-> s]
OptKey(o) == [t |-> "option", v |-> o]
\* a key of another Go type, the bool true of TestIncorrectPath
BoolKey == [t |-> "other", v |-> "true"]

(* --------------------------------------------------------- documents --- *)
\* the document of the tests
testData ==
  Obj( "data" :> Obj( "subData" :> Obj( "array" :> Arr(<< Obj( "str" :> Str("a string")
                                                              @@ "int" :> Num(<<"4","2">>) ),
                                                         Str("string in array"),
                                                         Num(<<"1","2",".","3","4">>),
                                                         Bool(TRUE) >>)
                                        @@ "bool" :> Bool(FALSE) )
                      @@ "int" :> Num(<<"1","2","3">>)
                      @@ "str" :> Str("string in data") )
    @@ "moreData" :> Obj( "str" :> Str("string in moreData") )
    @@ "array" :> Arr(<< Num(<<"1">>), Num(<<"2">>), Num(<<"3">>) >>) )

\* the document of the README, with its null member
readmeArray == Arr(<< Num(<<"1">>), Num(<<"2">>), Bool(FALSE) >>)

readmeResp ==
  Obj( "s" :> Str("a string")
    @@ "i" :> Num(<<"4","2">>)
    @@ "f" :> Num(<<"1","2",".","3","4">>)
    @@ "a" :> readmeArray
    @@ "n" :> Null )

readmeData == Obj( "resp" :> readmeResp )

(* ------------------------------------------------- strconv, fmt, json --- *)
Digits == <<"0","1","2","3","4","5","6","7","8","9">>

RECURSIVE FormatUint(_)
\* strconv.FormatInt on a non-negative value, base 10: most significant digit first
FormatUint(u) == IF u < 10 THEN Digits[u + 1]
                 ELSE FormatUint(u \div 10) \o Digits[(u % 10) + 1]

\* a formatter that loses the sign
ItoaUnsigned(k) == IF k < 0 THEN FormatUint(-k) ELSE FormatUint(k)

\* strconv.Itoa
Itoa(k) == IF k < 0 THEN "-" \o FormatUint(-k) ELSE FormatUint(k)

\* fmt.Sprint("#v", k): the operands are joined without a space, one being a string
SprintKey(key) == IF key.t = "option" THEN "#v" \o Itoa(key.v) ELSE "#v" \o key.v

IsDigit(c) == \E d \in 1..10 : Digits[d] = c
DigitVal(c) == (CHOOSE d \in 1..10 : Digits[d] = c) - 1

AllDigits(s) == \A j \in 1..Len(s) : IsDigit(s[j])

\* the element of a set of one element: The({e(x) : x \in {v}}) is e of the value
\* of v, v computed once
The(S) == CHOOSE x \in S : TRUE

\* the least element of a non-empty set of positions
First(S) == The({(CHOOSE j \in T : \A k \in T : j <= k) : T \in {S}})

\* a digit sequence without its leading zeros, "0" for zero: the decimal form of
\* the magnitude of an integer of any size
Canon(d) == The({IF nz = {} THEN <<"0">> ELSE SubSeq(d, First(nz), Len(d)) :
                   nz \in {{j \in 1..Len(d) : d[j] # "0"}}})

\* the j-th digit of d, read as padded with zeros on the right
DigitAt(d, j) == IF j <= Len(d) THEN d[j] ELSE "0"

\* a >= b for digit sequences read as fractions 0.d
FractionGE(a, b) ==
  LET n == IF Len(a) > Len(b) THEN Len(a) ELSE Len(b)
  IN \E diff \in {{j \in 1..n : DigitAt(a, j) # DigitAt(b, j)}} :
       diff = {} \/ DigitVal(DigitAt(a, First(diff))) > DigitVal(DigitAt(b, First(diff)))

\* a > b for magnitudes in the form of Canon
Greater(a, b) == \/ Len(a) > Len(b)
                 \/ Len(a) = Len(b) /\ a # b /\ FractionGE(a, b)

\* math.MaxUint64, math.MaxInt64 and the magnitude of math.MinInt64
MaxUint64 == <<"1","8","4","4","6","7","4","4","0","7","3","7","0","9","5","5","1","6","1","5">>
MaxInt64 == <<"9","2","2","3","3","7","2","0","3","6","8","5","4","7","7","5","8","0","7">>
MinInt64 == <<"9","2","2","3","3","7","2","0","3","6","8","5","4","7","7","5","8","0","8">>

\* strconv.ParseInt(s, 10, 64): [neg, mag, err], the int64 being the integer of
\* magnitude mag (in the form of Canon), negative when neg.  ParseUint reads the
\* characters in order and returns at the first one that is no digit (syntax) or
\* that takes the value past MaxUint64 (range); ParseInt then clamps to int64.
ParseInt(s) ==
  LET signed == s # <<>> /\ s[1] \in {"+", "-"}
      neg    == signed /\ s[1] = "-"
      body   == IF signed THEN Tail(s) ELSE s
      stops  == {j \in 1..Len(body) :
                   \/ ~IsDigit(body[j])
                   \/ /\ AllDigits(SubSeq(body, 1, j))
                      /\ Greater(Canon(SubSeq(body, 1, j)), MaxUint64)}
      syntax == [neg |-> FALSE, mag |-> <<"0">>, err |-> "ParseInt: invalid syntax"]
      range  == [neg |-> neg, mag |-> IF neg THEN MinInt64 ELSE MaxInt64,
                 err |-> "ParseInt: value out of range"]
  IN IF s = <<>> \/ body = <<>> THEN syntax
     ELSE IF stops # {}
       THEN IF ~IsDigit(body[First(stops)]) THEN syntax ELSE range
     ELSE IF ~neg /\ Greater(Canon(body), MaxInt64) THEN range
     ELSE IF neg /\ Greater(Canon(body), MinInt64) THEN range
     ELSE [neg |-> neg /\ Canon(body) # <<"0">>, mag |-> Canon(body), err |-> "nil"]

\* lower-casing of the letters a float literal can hold
Lower(c) == CASE c = "A" -> "a" [] c = "B" -> "b" [] c = "C" -> "c" [] c = "D" -> "d"
              [] c = "E" -> "e" [] c = "F" -> "f" [] c = "I" -> "i" [] c = "N" -> "n"
              [] c = "P" -> "p" [] c = "T" -> "t" [] c = "X" -> "x" [] c = "Y" -> "y"
              [] OTHER -> c

LowerAll(s) == [j \in 1..Len(s) |-> Lower(s[j])]

HexDigits == <<"0", "1", "2", "3", "4", "5", "6", "7", "8", "9", "a", "b", "c", "d", "e", "f">>

IsHexDigit(c) == \E d \in 1..16 : HexDigits[d] = Lower(c)
HexVal(c) == (CHOOSE d \in 1..16 : HexDigits[d] = Lower(c)) - 1

RECURSIVE CarryDigits(_)
\* the digits of a carry, none for zero
CarryDigits(c) == IF c = 0 THEN <<>> ELSE Append(CarryDigits(c \div 10), Digits[(c % 10) + 1])

RECURSIVE MulAddCarry(_, _, _)
\* d * m + c on as many digits as d has, and the carry out of them: the lower
\* half first, its carry into the upper half
MulAddCarry(d, m, c) ==
  IF d = <<>> THEN [digs |-> <<>>, carry |-> c]
  ELSE IF Len(d) = 1
    THEN The({[digs |-> <<Digits[(x % 10) + 1]>>, carry |-> x \div 10] :
              x \in {DigitVal(d[1]) * m + c}})
  ELSE LET h == Len(d) \div 2
       IN The({ The({ [digs |-> hi.digs \o lo.digs, carry |-> hi.carry] :
                      hi \in {MulAddCarry(SubSeq(d, 1, h), m, lo.carry)} }) :
                lo \in {MulAddCarry(SubSeq(d, h + 1, Len(d)), m, c)} })

\* the digits of d * m + c, for a digit sequence d and small naturals m and c
MulAdd(d, m, c) ==
  The({CarryDigits(r.carry) \o r.digs : r \in {MulAddCarry(x, m, c) : x \in {d}}})

RECURSIVE Times(_, _, _)
\* the digits of d * m^n: one half of the factors first, then the other
Times(d, m, n) ==
  IF n = 0 THEN d
  ELSE IF n = 1 THEN MulAdd(d, m, 0)
  ELSE The({Times(half, m, n - (n \div 2)) : half \in {Times(d, m, n \div 2)}})

RECURSIVE HexValue(_, _)
\* the decimal digits of a sequence of hexadecimal digits, none for zero
HexValue(h, acc) ==
  IF h = <<>> THEN acc
  ELSE The({HexValue(Tail(h), next) : next \in {MulAdd(acc, 16, HexVal(h[1]))}})

\* the number of bits of the value of a sequence of hexadecimal digits
BitLen(h) ==
  LET nz == {j \in 1..Len(h) : h[j] # "0"}
  IN IF nz = {} THEN 0
     ELSE LET v == HexVal(h[First(nz)])
          IN 4 * (Len(h) - First(nz))
               + (IF v >= 8 THEN 4 ELSE IF v >= 4 THEN 3 ELSE IF v >= 2 THEN 2 ELSE 1)

\* the literal has the base prefix 0x and something after it
HasHexPrefix(b) == Len(b) > 2 /\ b[1] = "0" /\ Lower(b[2]) = "x"

\* underscoreOK: every underscore stands between two digits, or between the base
\* prefix and a digit
UnderscoreOK(b) ==
  LET digit(j) == \/ IsDigit(b[j])
                  \/ HasHexPrefix(b) /\ j >= 2 /\ (j = 2 \/ IsHexDigit(b[j]))
  IN \A j \in 1..Len(b) :
       b[j] = "_" => (j > 1 /\ j < Len(b) /\ digit(j - 1) /\ digit(j + 1))

RECURSIVE ExponentValue(_, _)
\* readFloat's exponent: digits are accumulated only while the value is below 10000
ExponentValue(d, acc) ==
  IF d = <<>> THEN acc
  ELSE The({ExponentValue(Tail(d), next) :
            next \in {IF acc < 10000 THEN acc * 10 + DigitVal(d[1]) ELSE acc}})

\* 2^1024 - 2^970, halfway between math.MaxFloat64 and 2^1024: a decimal at or
\* above it rounds to infinity
OverflowThreshold ==
  << "1", "7", "9", "7", "6", "9", "3", "1", "3", "4", "8", "6", "2", "3", "1", "5", "8", "0", "7", "9",
     "3", "7", "2", "8", "9", "7", "1", "4", "0", "5", "3", "0", "3", "4", "1", "5", "0", "7", "9", "9",
     "3", "4", "1", "3", "2", "7", "1", "0", "0", "3", "7", "8", "2", "6", "9", "3", "6", "1", "7", "3",
     "7", "7", "8", "9", "8", "0", "4", "4", "4", "9", "6", "8", "2", "9", "2", "7", "6", "4", "7", "5",
     "0", "9", "4", "6", "6", "4", "9", "0", "1", "7", "9", "7", "7", "5", "8", "7", "2", "0", "7", "0",
     "9", "6", "3", "3", "0", "2", "8", "6", "4", "1", "6", "6", "9", "2", "8", "8", "7", "9", "1", "0",
     "9", "4", "6", "5", "5", "5", "5", "4", "7", "8", "5", "1", "9", "4", "0", "4", "0", "2", "6", "3",
     "0", "6", "5", "7", "4", "8", "8", "6", "7", "1", "5", "0", "5", "8", "2", "0", "6", "8", "1", "9",
     "0", "8", "9", "0", "2", "0", "0", "0", "7", "0", "8", "3", "8", "3", "6", "7", "6", "2", "7", "3",
     "8", "5", "4", "8", "4", "5", "8", "1", "7", "7", "1", "1", "5", "3", "1", "7", "6", "4", "4", "7",
     "5", "7", "3", "0", "2", "7", "0", "0", "6", "9", "8", "5", "5", "5", "7", "1", "3", "6", "6", "9",
     "5", "9", "6", "2", "2", "8", "4", "2", "9", "1", "4", "8", "1", "9", "8", "6", "0", "8", "3", "4",
     "9", "3", "6", "4", "7", "5", "2", "9", "2", "7", "1", "9", "0", "7", "4", "1", "6", "8", "4", "4",
     "4", "3", "6", "5", "5", "1", "0", "7", "0", "4", "3", "4", "2", "7", "1", "1", "5", "5", "9", "6",
     "9", "9", "5", "0", "8", "0", "9", "3", "0", "4", "2", "8", "8", "0", "1", "7", "7", "9", "0", "4",
     "1", "7", "4", "4", "9", "7", "7", "9", "2" >>

\* 5^1075, the digits of 2^-1075 = 5^1075 * 10^-1075, half the smallest denormal:
\* a decimal at or below it rounds to zero
UnderflowDigits ==
  << "2", "4", "7", "0", "3", "2", "8", "2", "2", "9", "2", "0", "6", "2", "3", "2", "7", "2", "0", "8",
     "8", "2", "8", "4", "3", "9", "6", "4", "3", "4", "1", "1", "0", "6", "8", "6", "1", "8", "2", "5",
     "2", "9", "9", "0", "1", "3", "0", "7", "1", "6", "2", "3", "8", "2", "2", "1", "2", "7", "9", "2",
     "8", "4", "1", "2", "5", "0", "3", "3", "7", "7", "5", "3", "6", "3", "5", "1", "0", "4", "3", "7",
     "5", "9", "3", "2", "6", "4", "9", "9", "1", "8", "1", "8", "0", "8", "1", "7", "9", "9", "6", "1",
     "8", "9", "8", "9", "8", "2", "8", "2", "3", "4", "7", "7", "2", "2", "8", "5", "8", "8", "6", "5",
     "4", "6", "3", "3", "2", "8", "3", "5", "5", "1", "7", "7", "9", "6", "9", "8", "9", "8", "1", "9",
     "9", "3", "8", "7", "3", "9", "8", "0", "0", "5", "3", "9", "0", "9", "3", "9", "0", "6", "3", "1",
     "5", "0", "3", "5", "6", "5", "9", "5", "1", "5", "5", "7", "0", "2", "2", "6", "3", "9", "2", "2",
     "9", "0", "8", "5", "8", "3", "9", "2", "4", "4", "9", "1", "0", "5", "1", "8", "4", "4", "3", "5",
     "9", "3", "1", "8", "0", "2", "8", "4", "9", "9", "3", "6", "5", "3", "6", "1", "5", "2", "5", "0",
     "0", "3", "1", "9", "3", "7", "0", "4", "5", "7", "6", "7", "8", "2", "4", "9", "2", "1", "9", "3",
     "6", "5", "6", "2", "3", "6", "6", "9", "8", "6", "3", "6", "5", "8", "4", "8", "0", "7", "5", "7",
     "0", "0", "1", "5", "8", "5", "7", "6", "9", "2", "6", "9", "9", "0", "3", "7", "0", "6", "3", "1",
     "1", "9", "2", "8", "2", "7", "9", "5", "5", "8", "5", "5", "1", "3", "3", "2", "9", "2", "7", "8",
     "3", "4", "3", "3", "8", "4", "0", "9", "3", "5", "1", "9", "7", "8", "0", "1", "5", "5", "3", "1",
     "2", "4", "6", "5", "9", "7", "2", "6", "3", "5", "7", "9", "5", "7", "4", "6", "2", "2", "7", "6",
     "6", "4", "6", "5", "2", "7", "2", "8", "2", "7", "2", "2", "0", "0", "5", "6", "3", "7", "4", "0",
     "0", "6", "4", "8", "5", "4", "9", "9", "9", "7", "7", "0", "9", "6", "5", "9", "9", "4", "7", "0",
     "4", "5", "4", "0", "2", "0", "8", "2", "8", "1", "6", "6", "2", "2", "6", "2", "3", "7", "8", "5",
     "7", "3", "9", "3", "4", "5", "0", "7", "3", "6", "3", "3", "9", "0", "0", "7", "9", "6", "7", "7",
     "6", "1", "9", "3", "0", "5", "7", "7", "5", "0", "6", "7", "4", "0", "1", "7", "6", "3", "2", "4",
     "6", "7", "3", "6", "0", "0", "9", "6", "8", "9", "5", "1", "3", "4", "0", "5", "3", "5", "5", "3",
     "7", "4", "5", "8", "5", "1", "6", "6", "6", "1", "1", "3", "4", "2", "2", "3", "7", "6", "6", "6",
     "7", "8", "6", "0", "4", "1", "6", "2", "1", "5", "9", "6", "8", "0", "4", "6", "1", "9", "1", "4",
     "4", "6", "7", "2", "9", "1", "8", "4", "0", "3", "0", "0", "5", "3", "0", "0", "5", "7", "5", "3",
     "0", "8", "4", "9", "0", "4", "8", "7", "6", "5", "3", "9", "1", "7", "1", "1", "3", "8", "6", "5",
     "9", "1", "6", "4", "6", "2", "3", "9", "5", "2", "4", "9", "1", "2", "6", "2", "3", "6", "5", "3",
     "8", "8", "1", "8", "7", "9", "6", "3", "6", "2", "3", "9", "3", "7", "3", "2", "8", "0", "4", "2",
     "3", "8", "9", "1", "0", "1", "8", "6", "7", "2", "3", "4", "8", "4", "9", "7", "6", "6", "8", "2",
     "3", "5", "0", "8", "9", "8", "6", "3", "3", "8", "8", "5", "8", "7", "9", "2", "5", "6", "2", "8",
     "3", "0", "2", "7", "5", "5", "9", "9", "5", "6", "5", "7", "5", "2", "4", "4", "5", "5", "5", "0",
     "7", "2", "5", "5", "1", "8", "9", "3", "1", "3", "6", "9", "0", "8", "3", "6", "2", "5", "4", "7",
     "7", "9", "1", "8", "6", "9", "4", "8", "6", "6", "7", "9", "9", "4", "9", "6", "8", "3", "2", "4",
     "0", "4", "9", "7", "0", "5", "8", "2", "1", "0", "2", "8", "5", "1", "3", "1", "8", "5", "4", "5",
     "1", "3", "9", "6", "2", "1", "3", "8", "3", "7", "7", "2", "2", "8", "2", "6", "1", "4", "5", "4",
     "3", "7", "6", "9", "3", "4", "1", "2", "5", "3", "2", "0", "9", "8", "5", "9", "1", "3", "2", "7",
     "6", "6", "7", "2", "3", "6", "3", "2", "8", "1", "2", "5" >>

\* the decimal mant * 10^exp, mant in the form of Canon and not zero, is >= the
\* decimal whose digits are t and whose first digit has the weight 10^texp
DecimalGE(mant, exp, t, texp) ==
  LET e == Len(mant) - 1 + exp
  IN e > texp \/ (e = texp /\ FractionGE(mant, t))

\* the mantissa text mtext and the exponent text etext of a literal, read for
\* the base `hex` says: [ok, digs, frac, e]
ReadParts(mtext, etext, hasExp, hex) ==
  LET esign == etext # <<>> /\ etext[1] \in {"+", "-"}
      edigs == IF esign THEN Tail(etext) ELSE etext
      dots  == {j \in 1..Len(mtext) : mtext[j] = "."}
      whole == IF dots = {} THEN mtext ELSE SubSeq(mtext, 1, First(dots) - 1)
      frac  == IF dots = {} THEN <<>> ELSE SubSeq(mtext, First(dots) + 1, Len(mtext))
  IN [ok   |-> /\ Cardinality(dots) <= 1 /\ Len(mtext) > Cardinality(dots)
               /\ \A j \in 1..Len(mtext) :
                    \/ mtext[j] = "."
                    \/ IF hex THEN IsHexDigit(mtext[j]) ELSE IsDigit(mtext[j])
               /\ IF hasExp THEN edigs # <<>> /\ AllDigits(edigs) ELSE ~hex,
      digs |-> whole \o frac,
      frac |-> Len(frac),
      e    |-> IF ~AllDigits(edigs) THEN 0
               ELSE IF esign /\ etext[1] = "-" THEN -ExponentValue(edigs, 0)
               ELSE ExponentValue(edigs, 0)]

\* readFloat on a literal m (sign, base prefix and underscores taken off) whose
\* digits are of the base `hex` says and whose exponent follows the character
\* mark: [ok, digs, frac, e], the digits of the mantissa, how many of them follow
\* the point, and the exponent
ReadFloat(m, hex, mark) ==
  The({ IF marks = {}
          THEN ReadParts(m, <<>>, FALSE, hex)
          ELSE The({ReadParts(mtext, etext, TRUE, hex) :
                    mtext \in {SubSeq(m, 1, First(marks) - 1)},
                    etext \in {SubSeq(m, First(marks) + 1, Len(m))}}) :
        marks \in {{j \in 1..Len(m) : Lower(m[j]) = mark}} })

\* the result for the decimal mant * 10^exp, mant without leading or trailing zeros
Rounded(neg, mant, exp) ==
  IF DecimalGE(mant, exp, OverflowThreshold, 308)
    THEN [class |-> "inf", neg |-> neg, mant |-> <<"0">>, exp |-> 0,
          err |-> "ParseFloat: value out of range"]
  ELSE IF DecimalGE(UnderflowDigits, -1075, mant, Len(mant) - 1 + exp)
    THEN [class |-> "finite", neg |-> neg, mant |-> <<"0">>, exp |-> 0, err |-> "nil"]
  ELSE [class |-> "finite", neg |-> neg, mant |-> mant, exp |-> exp, err |-> "nil"]

\* the float64 nearest to the decimal digs * 10^e10, digs not all zero
Nearest(neg, digs, e10) ==
  The({ The({Rounded(neg, mant, e10 + (Len(lead) - Len(mant))) :
             mant \in {SubSeq(lead, 1, CHOOSE j \in 1..Len(lead) :
                                         /\ lead[j] # "0"
                                         /\ \A k \in (j + 1)..Len(lead) : lead[k] = "0")}}) :
        lead \in {Canon(digs)} })

\* the result for what readFloat has read
Atof(neg, hex, r) ==
  LET k    == r.e - 4 * r.frac
      top  == BitLen(r.digs) - 1 + k
      zero == [class |-> "finite", neg |-> neg, mant |-> <<"0">>, exp |-> 0, err |-> "nil"]
  IN IF ~r.ok
       THEN [class |-> "finite", neg |-> FALSE, mant |-> <<"0">>, exp |-> 0,
             err |-> "ParseFloat: invalid syntax"]
     ELSE IF ~hex
       THEN IF Canon(r.digs) = <<"0">> THEN zero ELSE Nearest(neg, r.digs, r.e - r.frac)
     ELSE IF BitLen(r.digs) = 0 THEN zero
     ELSE IF top >= 1024
       THEN [class |-> "inf", neg |-> neg, mant |-> <<"0">>, exp |-> 0,
             err |-> "ParseFloat: value out of range"]
     ELSE IF top < -1076 THEN zero
     ELSE IF k >= 0
       THEN The({Nearest(neg, d, 0) : d \in {Times(HexValue(r.digs, <<>>), 2, k)}})
     ELSE The({Nearest(neg, d, k) : d \in {Times(HexValue(r.digs, <<>>), 5, -k)}})

\* a character that is no underscore
NoUnderscore(c) == c # "_"

\* strconv.ParseFloat(s, 64): [class, neg, mant, exp, err].  A finite result is
\* the decimal mant * 10^exp that the text denotes (mant without leading or
\* trailing zeros); the float64 is the one nearest to it, which a text of at most
\* 15 significant digits in the normal range shares with no other such text.
ParseFloat(s) ==
  LET signed == s # <<>> /\ s[1] \in {"+", "-"}
      neg    == signed /\ s[1] = "-"
      body   == IF signed THEN Tail(s) ELSE s
      hex    == HasHexPrefix(body)
  IN IF ~signed /\ LowerAll(s) = <<"n", "a", "n">>
       THEN [class |-> "nan", neg |-> FALSE, mant |-> <<"0">>, exp |-> 0, err |-> "nil"]
     ELSE IF LowerAll(body) \in {<<"i", "n", "f">>, <<"i", "n", "f", "i", "n", "i", "t", "y">>}
       THEN [class |-> "inf", neg |-> neg, mant |-> <<"0">>, exp |-> 0, err |-> "nil"]
     ELSE IF ~UnderscoreOK(body)
       THEN [class |-> "finite", neg |-> FALSE, mant |-> <<"0">>, exp |-> 0,
             err |-> "ParseFloat: invalid syntax"]
     ELSE The({Atof(neg, hex, r) :
               r \in {ReadFloat(m, hex, IF hex THEN "p" ELSE "e") :
                      m \in {SelectSeq(IF hex THEN SubSeq(body, 3, Len(body)) ELSE body,
                                       NoUnderscore)}}})

(* -------------------------------------------------------------- errors --- *)
NoError == [type |-> "nil"]
KeyError(msg, idx, key) == [type |-> "KeyError", Msg |-> msg, Idx |-> idx, Key |-> key]
NullError(key) == [type |-> "NullError", Key |-> key]
NumError(msg) == [type |-> "NumError", Msg |-> msg]

(* --------------------------------------------------------------- state --- *)
VARIABLES
  pc,                \* "idle", "loop", "ret", "done", "panic"
  fn,                \* the exported function that was called
  root,              \* the argument intf of the call
  dType,             \* the argument dType of GetPropertyWithType
  keys,              \* the variadic argument keys
  intf,              \* the parameter intf, reassigned while the keys are walked
  skey, idx, ok, returnErrorOnNull, expectOptions,   \* the locals of line 61
  i,                 \* the loop's own idx, which shadows the local of line 61
  res, err,          \* what GetPropertyWithType returned
  out,               \* what the exported function returned: [res, err]
  round, first       \* the same call is made a second time; first is its first result

vars == <<pc, fn, root, dType, keys, intf, skey, idx, ok, returnErrorOnNull,
          expectOptions, i, res, err, out, round, first>>


(* -------------------------------------------------------------- inputs --- *)
emptyArray == Arr(<<>>)

\* the values a generated call passes as intf
Roots == {readmeData, readmeResp, readmeArray, emptyArray, Null, Num(<<"4","2">>),
          Str("a string"), Bool(TRUE)}

\* the keys a generated call draws from
KeyAlphabet == {StrKey("resp"), StrKey("a"), StrKey("n")}
               \cup {IntKey(k) : k \in -1..MaxIdx}
               \cup {OptKey(ErrorOnNull), OptKey(OtherOption), BoolKey}

RECURSIVE SeqsUpTo(_, _)
\* every sequence over S of length at most n
SeqsUpTo(S, n) == IF n = 0 THEN {<<>>}
                  ELSE LET shorter == SeqsUpTo(S, n - 1)
                       IN shorter \cup {Append(p, x) : p \in shorter, x \in S}

\* the key lists of the tests and of the README
TestPaths == { <<StrKey("array")>>,
               <<StrKey("data"), StrKey("subData"), StrKey("bool")>>,
               <<StrKey("data"), StrKey("subData"), StrKey("array"), IntKey(0), StrKey("str")>>,
               <<StrKey("data"), StrKey("subData"), StrKey("array"), IntKey(0), StrKey("int")>>,
               <<StrKey("data"), StrKey("int")>>,
               <<StrKey("array"), IntKey(1)>>,
               <<StrKey("data"), StrKey("subData"), StrKey("array"), IntKey(2)>>,
               <<StrKey("data"), StrKey("inexistentField")>>,
               <<StrKey("array"), StrKey("inexistentIndex")>>,
               <<StrKey("data"), IntKey(0)>>,
               <<StrKey("data"), BoolKey>> }

ReadmePaths == { <<StrKey("resp"), StrKey("s")>>,
                 <<StrKey("resp"), StrKey("a"), IntKey(0)>>,
                 <<StrKey("resp"), StrKey("a"), IntKey(2)>>,
                 <<StrKey("resp"), StrKey("a"), IntKey(3)>>,
                 <<StrKey("resp"), StrKey("n"), StrKey("a")>>,
                 <<StrKey("resp"), StrKey("a"), OptKey(ErrorOnNull)>>,
                 <<OptKey(ErrorOnNull), StrKey("resp"), StrKey("n")>>,
                 <<OptKey(ErrorOnNull), StrKey("resp"), StrKey("s")>>,
                 <<OptKey(OtherOption), OptKey(ErrorOnNull), StrKey("resp"), StrKey("n")>>,
                 <<OptKey(OtherOption), StrKey("resp"), StrKey("n")>>,
                 <<OptKey(ErrorOnNull), StrKey("resp"), StrKey("a"), IntKey(1)>> }

\* number texts at the limits of int64 and float64 and with exponents, as the
\* decoder (UseNumber, line 23) keeps them, and two literals that only a
\* json.Number built by the caller holds
NumberTexts == { <<"0","x","1","p","-","2">>,
                 <<"1","_","0","0","0">>,
                 <<"9","2","2","3","3","7","2","0","3","6","8","5","4","7","7","5","8","0","7">>,
                 <<"9","2","2","3","3","7","2","0","3","6","8","5","4","7","7","5","8","0","8">>,
                 <<"-","9","2","2","3","3","7","2","0","3","6","8","5","4","7","7","5","8","0","8">>,
                 <<"-","9","2","2","3","3","7","2","0","3","6","8","5","4","7","7","5","8","0","9">>,
                 <<"2","1","4","7","4","8","3","6","4","8">>,
                 <<"-","0">>,
                 <<"1","e","3">>,
                 <<"1",".","5","e","3">>,
                 <<"1","E","-","2">>,
                 <<"1",".","5","0">>,
                 <<"1","e","4","0","0">>,
                 <<"1","e","-","4","0","0">>,
                 <<"1",".","7","9","7","6","9","3","1","3","4","8","6","2","3","1","5","7","e","3","0","8">>,
                 <<"1",".","7","9","7","6","9","3","1","3","4","8","6","2","3","1","5","9","e","3","0","8">> }

\* the calls the model makes: [root, keys]
Calls == {[root |-> r, keys |-> p] : r \in Roots, p \in SeqsUpTo(KeyAlphabet, MaxLen)}
         \cup {[root |-> testData, keys |-> p] : p \in TestPaths}
         \cup {[root |-> readmeData, keys |-> p] : p \in ReadmePaths}
         \cup {[root |-> Num(x), keys |-> <<>>] : x \in NumberTexts}

\* the exported functions and the dType each passes on
Accessors == {"GetProperty", "GetArray", "GetNumber", "GetInt", "GetFloat", "GetString", "GetBool"}

Functions == Accessors \cup {"GetPropertyWithType"}

\* the dType a direct call of GetPropertyWithType passes: none of the supported four
DirectTypes == {"object"}

TypeOf(f) == CASE f = "GetProperty" -> ""
               [] f = "GetArray"    -> "array"
               [] f = "GetNumber"   -> "number"
               [] f = "GetInt"      -> "number"
               [] f = "GetFloat"    -> "number"
               [] f = "GetString"   -> "string"
               [] f = "GetBool"     -> "bool"

(* ----------------------------------------------------- results of Go type --- *)
\* the zero values of the accessors' result types and their non-zero forms
Slice(v) == IF v.kind = "array" THEN [go |-> "slice", isNil |-> FALSE, elems |-> v.elems]
            ELSE [go |-> "slice", isNil |-> TRUE, elems |-> <<>>]
Number(v) == IF v.kind = "number" THEN [go |-> "Number", text |-> v.text]
             ELSE [go |-> "Number", text |-> <<>>]
String(v) == IF v.kind = "string" THEN [go |-> "string", s |-> v.s]
             ELSE [go |-> "string", s |-> ""]
Boolean(v) == IF v.kind = "bool" THEN [go |-> "bool", b |-> v.b]
              ELSE [go |-> "bool", b |-> FALSE]
Int64(n) == [go |-> "int64", neg |-> n.neg, mag |-> n.mag]
Float64(x) == [go |-> "float64", class |-> x.class, neg |-> x.neg, mant |-> x.mant,
               exp |-> x.exp]
\* the zero values of int64 and float64
ZeroInt == [neg |-> FALSE, mag |-> <<"0">>]
ZeroFloat == [class |-> "finite", neg |-> FALSE, mant |-> <<"0">>, exp |-> 0]

(* ---------------------------------------------------------------- Init --- *)
Idle == /\ pc = "idle" /\ fn = "" /\ root = Null /\ dType = "" /\ keys = <<>>
        /\ intf = Null /\ skey = "" /\ idx = 0 /\ ok = TRUE
        /\ returnErrorOnNull = FALSE /\ expectOptions = TRUE /\ i = 0
        /\ res = Null /\ err = NoError
        /\ out = [res |-> Null, err |-> NoError]

Init == Idle /\ round = 1 /\ first = [res |-> Null, err |-> NoError]

(* ------------------------------------------- GetPropertyWithType, entry --- *)
\* line 61: skey, idx, ok, returnErrorOnNull, expectOptions := "", 0, true, false, true
Enter(f, t, r, ks) ==
  /\ pc' = "loop" /\ fn' = f /\ dType' = t /\ root' = r /\ keys' = ks
  /\ intf' = r /\ skey' = "" /\ idx' = 0 /\ ok' = TRUE
  /\ returnErrorOnNull' = FALSE /\ expectOptions' = TRUE /\ i' = 0
  /\ res' = Null /\ err' = NoError
  /\ out' = [res |-> Null, err |-> NoError]

\* a client calls one of the exported functions
Call == /\ pc = "idle"
        /\ \E c \in Calls :
             \/ \E f \in Accessors : Enter(f, TypeOf(f), c.root, c.keys)
             \/ \E t \in DirectTypes : Enter("GetPropertyWithType", t, c.root, c.keys)
        /\ UNCHANGED <<round, first>>

\* return nil, &KeyError{...} from inside the loop
Fail(e) == /\ pc' = "ret" /\ res' = Null /\ err' = e
           /\ UNCHANGED <<intf, i>>

\* the loop goes on to the next key
Continue(v) == /\ pc' = "loop" /\ intf' = v /\ i' = i + 1
               /\ UNCHANGED <<res, err>>

(* ----------------------------------------------------- the loop's cases --- *)
IsArray(v) == v.kind = "array"
IsMap(v) == v.kind = "object"

\* a bounds check without its lower bound
OutOfBoundsNoLower(k, a) == k >= Len(a.elems)

\* a bounds check whose upper bound is inclusive
OutOfBoundsInclusive(k, a) == k < 0 \/ k > Len(a.elems)

\* line 71: k < 0 || k >= len(a)
OutOfBounds(k, a) == k < 0 \/ k >= Len(a.elems)

\* an index expression that is one off where the slice allows it
IndexOffByOne(a, k) == IF k + 2 \in DOMAIN a.elems THEN a.elems[k + 2] ELSE a.elems[k + 1]

\* line 74: a[k], Go slices being 0-based
Index(a, k) == a.elems[k + 1]

\* a membership test that takes a null member for a missing one
HasMemberNotNull(m, k) == k \in DOMAIN m.members /\ m.members[k] # Null

\* line 83: intf, ok = m[k]
HasMember(m, k) == k \in DOMAIN m.members

\* line 83: the value m[k], nil when the map has no such key
Member(m, k) == IF k \in DOMAIN m.members THEN m.members[k] ELSE Null

\* an ordering check that never fires
MisplacedNever(expect) == FALSE

\* line 88: !expectOptions
Misplaced(expect) == ~expect

\* case int, lines 64-74
CaseInt ==
  /\ pc = "loop" /\ i < Len(keys) /\ keys[i + 1].t = "int"
  /\ LET k == keys[i + 1].v
     IN /\ skey' = Itoa(k)
        /\ expectOptions' = FALSE
        /\ IF ~IsArray(intf)
             THEN Fail(KeyError("No array found", i, Itoa(k)))
           ELSE IF OutOfBounds(k, intf)
             THEN Fail(KeyError("Array index out of bounds", i, Itoa(k)))
           ELSE IF k + 1 \notin DOMAIN intf.elems
             \* a[k] with k outside the slice: a run-time panic
             THEN pc' = "panic" /\ UNCHANGED <<intf, i, res, err>>
           ELSE Continue(Index(intf, k))
  /\ UNCHANGED <<fn, root, dType, keys, idx, ok, returnErrorOnNull, out, round, first>>

\* case string, lines 75-86
CaseString ==
  /\ pc = "loop" /\ i < Len(keys) /\ keys[i + 1].t = "string"
  /\ LET k == keys[i + 1].v
     IN /\ skey' = k
        /\ expectOptions' = FALSE
        /\ IF ~IsMap(intf)
             THEN Fail(KeyError("No object found", i, k))
           ELSE IF ~HasMember(intf, k)
             THEN /\ intf' = Member(intf, k)
                  /\ pc' = "ret" /\ res' = Null
                  /\ err' = KeyError("Object property not found", i, k)
                  /\ UNCHANGED i
           ELSE Continue(Member(intf, k))
  /\ UNCHANGED <<fn, root, dType, keys, idx, ok, returnErrorOnNull, out, round, first>>

\* case Option, lines 87-93
CaseOption ==
  /\ pc = "loop" /\ i < Len(keys) /\ keys[i + 1].t = "option"
  /\ LET k == keys[i + 1].v
     IN IF Misplaced(expectOptions)
          THEN /\ Fail(KeyError("Options must be specified before the actual keys",
                                i, SprintKey(keys[i + 1])))
               /\ UNCHANGED returnErrorOnNull
          ELSE /\ returnErrorOnNull' = (IF k = ErrorOnNull THEN TRUE ELSE returnErrorOnNull)
               /\ Continue(intf)
  /\ UNCHANGED <<fn, root, dType, keys, skey, idx, ok, expectOptions, out, round, first>>

\* a default case that ends the lookup without an error, as a bare return does
CaseDefaultSilent ==
  /\ pc = "loop" /\ i < Len(keys) /\ keys[i + 1].t \notin {"int", "string", "option"}
  /\ Fail(NoError)
  /\ UNCHANGED <<fn, root, dType, keys, skey, idx, ok, returnErrorOnNull, expectOptions,
                 out, round, first>>

\* default, lines 94-96
CaseDefault ==
  /\ pc = "loop" /\ i < Len(keys) /\ keys[i + 1].t \notin {"int", "string", "option"}
  /\ Fail(KeyError("Not int or string", i, SprintKey(keys[i + 1])))
  /\ UNCHANGED <<fn, root, dType, keys, skey, idx, ok, returnErrorOnNull, expectOptions,
                 out, round, first>>


(* ------------------------------------- the type check and the null check --- *)
\* a type switch that lacks the case "bool"
TypeMatchesNoBool(t, v) == CASE t = "array"  -> v.kind = "array"
                             [] t = "number" -> v.kind = "number"
                             [] t = "string" -> v.kind = "string"
                             [] OTHER        -> ok

\* lines 99-108: the switch assigns ok for the four supported types only; for any
\* other dType ok keeps the value of line 61
TypeMatches(t, v) == CASE t = "array"  -> v.kind = "array"
                       [] t = "number" -> v.kind = "number"
                       [] t = "string" -> v.kind = "string"
                       [] t = "bool"   -> v.kind = "bool"
                       [] OTHER        -> ok

\* line 112: !ok && intf != nil
Mismatch(o, v) == ~o /\ v # Null

\* a null check that does not ask whether ErrorOnNull was given
NullRefusedAlways(v, flag) == v = Null

\* line 116: intf == nil && returnErrorOnNull
NullRefused(v, flag) == v = Null /\ flag

\* the idx that line 113 reads: the local of line 61, which the loop never assigns
ReportedIdx == idx

\* lines 99-120, after the last key
TypeCheck ==
  /\ pc = "loop" /\ i = Len(keys)
  /\ ok' = TypeMatches(dType, intf)
  /\ IF Mismatch(ok', intf)
       THEN res' = Null
            /\ err' = KeyError("Property is not of type " \o dType, ReportedIdx, skey)
     ELSE IF NullRefused(intf, returnErrorOnNull)
       THEN res' = Null /\ err' = NullError(skey)
     ELSE res' = intf /\ err' = NoError
  /\ pc' = "ret"
  /\ UNCHANGED <<fn, root, dType, keys, intf, skey, idx, returnErrorOnNull, expectOptions,
                 i, out, round, first>>

(* ------------------------------------------------------- the accessors --- *)
\* what each exported function makes of (value, err)
Returned(f, v, e) ==
  CASE f \in {"GetPropertyWithType", "GetProperty"} -> [res |-> v, err |-> e]
    [] f = "GetArray"  -> [res |-> Slice(v), err |-> e]
    [] f = "GetNumber" -> [res |-> Number(v), err |-> e]
    [] f = "GetString" -> [res |-> String(v), err |-> e]
    [] f = "GetBool"   -> [res |-> Boolean(v), err |-> e]
    [] f = "GetInt"    ->
         IF e # NoError THEN [res |-> Int64(ZeroInt), err |-> e]
         ELSE LET n == ParseInt(Number(v).text)
              IN [res |-> Int64(n),
                  err |-> IF n.err = "nil" THEN NoError ELSE NumError(n.err)]
    [] f = "GetFloat"  ->
         IF e # NoError THEN [res |-> Float64(ZeroFloat), err |-> e]
         ELSE LET x == ParseFloat(Number(v).text)
              IN [res |-> Float64(x),
                  err |-> IF x.err = "nil" THEN NoError ELSE NumError(x.err)]

Return(f) == /\ pc = "ret" /\ fn = f
             /\ out' = Returned(f, res, err)
             /\ pc' = "done"
             /\ UNCHANGED <<fn, root, dType, keys, intf, skey, idx, ok, returnErrorOnNull,
                            expectOptions, i, res, err, round, first>>

\* lines 60-121 and 125-127
ReturnProperty == Return("GetPropertyWithType") \/ Return("GetProperty")
\* lines 131-139
ReturnArray == Return("GetArray")
\* lines 143-151
ReturnNumber == Return("GetNumber")
\* lines 155-162
ReturnInt == Return("GetInt")
\* lines 166-173
ReturnFloat == Return("GetFloat")
\* lines 177-185
ReturnString == Return("GetString")
\* lines 189-197
ReturnBool == Return("GetBool")

(* ------------------------------------------------------------ the client --- *)
\* the client repeats a GetProperty call on the same tree with the same keys
Again == /\ pc = "done" /\ round = 1 /\ fn = "GetProperty"
         /\ first' = out /\ round' = 2
         /\ Enter(fn, dType, root, keys)

\* the client is ready for another call
Reset == /\ pc = "done"
         /\ pc' = "idle" /\ fn' = "" /\ root' = Null /\ dType' = "" /\ keys' = <<>>
         /\ intf' = Null /\ skey' = "" /\ idx' = 0 /\ ok' = TRUE
         /\ returnErrorOnNull' = FALSE /\ expectOptions' = TRUE /\ i' = 0
         /\ res' = Null /\ err' = NoError
         /\ out' = [res |-> Null, err |-> NoError]
         /\ round' = 1 /\ first' = [res |-> Null, err |-> NoError]

Next == \/ Call
        \/ CaseInt \/ CaseString \/ CaseOption \/ CaseDefault
        \/ TypeCheck
        \/ ReturnProperty \/ ReturnArray \/ ReturnNumber \/ ReturnInt
        \/ ReturnFloat \/ ReturnString \/ ReturnBool
        \/ Again \/ Reset

Spec == Init /\ [][Next]_vars


(***************************************************************************)
(* What the claims speak of.                                               *)
(***************************************************************************)
\* the stringified key of a segment: the decimal string of an int (TLC's ToString),
\* a string itself, and for any other segment the form lines 89 and 95 give it
KeyString(key) == CASE key.t = "int"    -> ToString(key.v)
                    [] key.t = "string" -> key.v
                    [] key.t = "option" -> "#v" \o ToString(key.v)
                    [] OTHER            -> "#v" \o key.v

IsKey(key) == key.t \in {"int", "string"}

RECURSIVE Reached(_, _, _)
\* Where the first n segments of p lead from v, by the rules of the specification:
\* an option is legal only before every int or string segment and leaves the value
\* alone, an int selects an element of an array, a string a member of an object.
\* [ok, v, seen]: ok is false once a segment has failed, seen once a key was consumed.
Reached(v, p, n) ==
  IF n = 0 THEN [ok |-> TRUE, v |-> v, seen |-> FALSE]
  ELSE LET r == Reached(v, p, n - 1)
           s == p[n]
           bad == [ok |-> FALSE, v |-> Null, seen |-> TRUE]
       IN IF ~r.ok THEN r
          ELSE CASE s.t = "option" -> IF r.seen THEN bad ELSE r
                 [] s.t = "int" ->
                      IF r.v.kind = "array" /\ s.v >= 0 /\ s.v < Len(r.v.elems)
                        THEN [ok |-> TRUE, v |-> r.v.elems[s.v + 1], seen |-> TRUE]
                        ELSE bad
                 [] s.t = "string" ->
                      IF r.v.kind = "object" /\ s.v \in DOMAIN r.v.members
                        THEN [ok |-> TRUE, v |-> r.v.members[s.v], seen |-> TRUE]
                        ELSE bad
                 [] OTHER -> bad

\* the value the segment at 0-based position j is applied to, its prefix having resolved
Before(j) == Reached(root, keys, j)

\* every segment of the call's key list resolves
Resolves == Reached(root, keys, Len(keys)).ok

\* the value the whole key list leads to
Target == Reached(root, keys, Len(keys)).v

\* the call was given the option o
Given(o) == \E j \in 1..Len(keys) : keys[j] = OptKey(o)

\* GetPropertyWithType has returned, having walked every key
Walked == pc \in {"ret", "done"} /\ i = Len(keys)

\* the returned error is the type mismatch of line 113
IsMismatch(e) == e.type = "KeyError" /\ e.Msg = "Property is not of type " \o dType

(* ----------------------------------------------------------------- C1 --- *)
\* C1: when the whole path was walked and the value found does not match the
\* requested type, the KeyError carries the 0-based position of the last segment
\* (here an int or a string) as Idx and its stringified key as Key.
C1_MismatchAtLastSegment ==
  (Walked /\ Len(keys) > 0 /\ IsKey(keys[Len(keys)]) /\ IsMismatch(err))
    => /\ err.Idx = Len(keys) - 1
       /\ err.Key = KeyString(keys[Len(keys)])

(* ----------------------------------------------------------------- C2 --- *)
\* the zero value of the result type of accessor f
Zero(f) == CASE f = "GetArray"  -> [go |-> "slice", isNil |-> TRUE, elems |-> <<>>]
             [] f = "GetNumber" -> [go |-> "Number", text |-> <<>>]
             [] f = "GetInt"    -> [go |-> "int64", neg |-> FALSE, mag |-> <<"0">>]
             [] f = "GetFloat"  -> [go |-> "float64", class |-> "finite", neg |-> FALSE,
                                    mant |-> <<"0">>, exp |-> 0]
             [] f = "GetString" -> [go |-> "string", s |-> ""]
             [] f = "GetBool"   -> [go |-> "bool", b |-> FALSE]

\* C2: a typed accessor whose path, given without ErrorOnNull, resolves to null
\* returns a nil error and the zero value of its result type.
C2_NullIsZeroValue ==
  (pc = "done" /\ fn \in Accessors \ {"GetProperty"}
     /\ Resolves /\ Target = Null /\ ~Given(ErrorOnNull))
    => out = [res |-> Zero(fn), err |-> NoError]


(* ----------------------------------------------------------------- C3 --- *)
SupportedTypes == {"array", "number", "string", "bool"}

\* C3: after the whole path was walked, a type-mismatch KeyError is returned if and
\* only if dType is one of the four supported types, the value found is not null and
\* its kind is not dType; so a typed accessor's nil-error value is null or of the
\* requested kind, and GetProperty never reports a mismatch.
C3_MismatchIffWrongKind ==
  Walked =>
    /\ IsMismatch(err) <=> (dType \in SupportedTypes /\ intf # Null /\ intf.kind # dType)
    /\ err.type = "KeyError" => IsMismatch(err)
    /\ (err = NoError /\ dType \in SupportedTypes) => (res = Null \/ res.kind = dType)
    /\ fn \in {"GetProperty", "GetPropertyWithType"} => err.type # "KeyError"

\* a number was found where a string, a bool or an array was asked for, and an
\* object where GetProperty asked for nothing
C3_Witness ==
  /\ Walked /\ Len(keys) = 2 /\ intf.kind = "number" /\ dType = "bool" /\ IsMismatch(err)

(* ----------------------------------------------------------------- C4 --- *)
\* the stringified key of the last int or string segment, "" when there is none
RECURSIVE LastKeyString(_)
LastKeyString(p) == IF p = <<>> THEN ""
                    ELSE IF IsKey(p[Len(p)]) THEN KeyString(p[Len(p)])
                    ELSE LastKeyString(SubSeq(p, 1, Len(p) - 1))

\* a NullError is returned if and only if every segment resolved, the value found
\* is null and ErrorOnNull was given, whatever the requested type
NullErrorIff ==
  (err.type = "NullError") <=> (Resolves /\ Target = Null /\ Given(ErrorOnNull))

\* C4 as stated: the NullError carries the stringified key of the last segment.
C4_NullErrorKeyOfLastSegment ==
  (pc \in {"ret", "done"} /\ err.type = "NullError")
    => /\ Len(keys) > 0
       /\ err.Key = KeyString(keys[Len(keys)])

\* C4 amended: a NullError is returned if and only if every segment resolved, the
\* value found is null and ErrorOnNull was given; it carries the stringified key of
\* the last int or string segment, and the empty string when the path has none.
C4_NullErrorIff ==
  pc \in {"ret", "done"}
    => /\ NullErrorIff
       /\ err.type = "NullError" => err.Key = LastKeyString(keys)

\* a null member below the root, refused under ErrorOnNull by a typed lookup
C4_Witness ==
  /\ pc = "ret" /\ err = NullError("n") /\ dType = "string"
  /\ Len(keys) = 2 /\ keys[1] = OptKey(ErrorOnNull)


(* ----------------------------------------------------------------- C5 --- *)
\* the segments at the 0-based positions below j are all options
OnlyOptionsBefore(j) == \A m \in 1..j : keys[m].t = "option"

OrderError(j) == KeyError("Options must be specified before the actual keys",
                          j, KeyString(keys[j + 1]))

\* C5: an option at position j whose prefix resolved and holds an int or string
\* segment fails the call with the ordering KeyError at Idx j; options placed before
\* every int or string segment cause no error, leave the current value and the
\* other locals alone, and ErrorOnNull shows only in the final null check.
C5_OptionsPrecedeKeys ==
  /\ pc \in {"ret", "done"} =>
       \A j \in 0..(Len(keys) - 1) :
         (keys[j + 1].t = "option" /\ Before(j).ok)
           => IF Before(j).seen THEN err = OrderError(j) /\ i = j
              ELSE i > j /\ err # OrderError(j)
  /\ ((pc = "loop" \/ Walked) /\ OnlyOptionsBefore(i))
       => /\ intf = root /\ skey = "" /\ expectOptions
          /\ returnErrorOnNull <=> (\E m \in 1..i : keys[m] = OptKey(ErrorOnNull))
  /\ (pc \in {"ret", "done"} /\ Given(ErrorOnNull))
       => IF Resolves /\ Target = Null THEN err.type = "NullError"
          ELSE IF Resolves THEN (err = NoError /\ res = Target) \/ IsMismatch(err)
          ELSE err.type = "KeyError" /\ ~IsMismatch(err)

\* an option after a consumed key was refused; and a leading option was passed over
C5_Witness ==
  /\ pc = "ret" /\ Len(keys) = 2 /\ keys[1].t = "string" /\ keys[2].t = "option"
  /\ err = OrderError(1)

(* ----------------------------------------------------------------- C6 --- *)
\* C6: the lookup never panics; it ends with a value and a nil error, with a
\* KeyError or with a NullError, the value being nil whenever an error is returned;
\* and it takes at most one loop step per segment.
C6_Total ==
  /\ pc # "panic"
  /\ i <= Len(keys)
  /\ pc \in {"ret", "done"} =>
       /\ err.type \in {"nil", "KeyError", "NullError"}
       /\ err # NoError => res = Null
       /\ err.type = "KeyError" => err.Idx \in 0..Len(keys)
       /\ i < Len(keys) => err.type = "KeyError"

\* an index equal to the length of the array it is applied to was turned down
C6_Witness ==
  /\ pc = "ret" /\ Len(keys) > 0 /\ i = Len(keys) - 1 /\ keys[i + 1].t = "int"
  /\ intf.kind = "array" /\ keys[i + 1].v \in {-1, Len(intf.elems)}
  /\ err.type = "KeyError"

(* ----------------------------------------------------------------- C7 --- *)
\* C7: an int segment k at position j applied to an array of length n fails with
\* "Array index out of bounds", Idx j and Key the decimal string of k when k < 0 or
\* k >= n; otherwise the current value becomes element k of that array.
C7_ArrayIndex ==
  /\ pc \in {"ret", "done", "panic"} =>
       \A j \in 0..(Len(keys) - 1) :
         (keys[j + 1].t = "int" /\ Before(j).ok /\ Before(j).v.kind = "array")
           => LET k == keys[j + 1].v
                  n == Len(Before(j).v.elems)
              IN IF k < 0 \/ k >= n
                   THEN /\ pc # "panic" /\ i = j
                        /\ err = KeyError("Array index out of bounds", j, ToString(k))
                   ELSE i > j
  /\ (pc = "loop" /\ i > 0 /\ keys[i].t = "int")
       => /\ Before(i - 1).v.kind = "array"
          /\ intf = Before(i - 1).v.elems[keys[i].v + 1]

\* index 3 into the three-element array of the README, and index 0 into an empty one
C7_Witness ==
  /\ pc = "ret" /\ i < Len(keys) /\ keys[i + 1].t = "int"
  /\ intf.kind = "array" /\ keys[i + 1].v = Len(intf.elems)
  /\ err.Msg = "Array index out of bounds"

(* ----------------------------------------------------------------- C8 --- *)
\* C8: a string segment at position j applied to a value that is not an object fails
\* with "No object found" at Idx j, an int segment applied to a value that is not an
\* array with "No array found" at Idx j and Key the decimal string of the index; the
\* loop stops at j, so later segments are not examined.
C8_NoCoercion ==
  pc \in {"ret", "done", "panic"} =>
    \A j \in 0..(Len(keys) - 1) :
      Before(j).ok =>
        /\ (keys[j + 1].t = "string" /\ Before(j).v.kind # "object")
             => /\ err = KeyError("No object found", j, keys[j + 1].v)
                /\ i = j /\ pc # "panic"
        /\ (keys[j + 1].t = "int" /\ Before(j).v.kind # "array")
             => /\ err = KeyError("No array found", j, ToString(keys[j + 1].v))
                /\ i = j /\ pc # "panic"

\* a string key applied to an array with a further segment behind it
C8_Witness ==
  /\ pc = "ret" /\ i = 0 /\ Len(keys) = 2 /\ keys[1].t = "string"
  /\ intf.kind = "array" /\ err.Msg = "No object found"

(* ----------------------------------------------------------------- C9 --- *)
\* C9: a string segment k at position j applied to an object that has no member k
\* makes every accessor fail with "Object property not found", Idx j and Key k; a
\* member whose value is null is found like any other.
C9_PropertyNotFound ==
  pc = "done" =>
    \A j \in 0..(Len(keys) - 1) :
      (keys[j + 1].t = "string" /\ Before(j).ok /\ Before(j).v.kind = "object")
        => IF keys[j + 1].v \in DOMAIN Before(j).v.members
             THEN /\ i > j
                  /\ out.err # KeyError("Object property not found", j, keys[j + 1].v)
             ELSE /\ out.err = KeyError("Object property not found", j, keys[j + 1].v)
                  /\ i = j

\* GetInt on the test document's ["data", "inexistentField"]
C9_Witness ==
  /\ pc = "done" /\ fn = "GetInt" /\ root = testData
  /\ out.err = KeyError("Object property not found", 1, "inexistentField")

(* ---------------------------------------------------------------- C10 --- *)
\* the text of a number is a decimal integer without sign or leading zero
IsIntegerText(t) == t # <<>> /\ AllDigits(t) /\ (Len(t) > 1 => t[1] # "0")

\* a JSON number without exponent, "-"? digits ("." digits)?, of at most 15 characters
IsDecimalText(t) ==
  LET b    == IF t # <<>> /\ t[1] = "-" THEN Tail(t) ELSE t
      dots == {j \in 1..Len(b) : b[j] = "."}
  IN /\ Len(t) <= 15 /\ b # <<>> /\ Cardinality(dots) <= 1
     /\ \A j \in 1..Len(b) : j \in dots \/ IsDigit(b[j])
     /\ \A j \in dots : 1 < j /\ j < Len(b)

\* C10 as stated: whenever every segment is valid GetProperty returns, with a nil
\* error, the value the int and string segments lead to from the root (stated here
\* for the paths that hold an int or string segment).
C10_ValidPathNilError ==
  (pc = "done" /\ fn = "GetProperty" /\ Resolves /\ \E j \in 1..Len(keys) : IsKey(keys[j]))
    => out = [res |-> Target, err |-> NoError]

\* C10 amended: whenever every segment is valid GetProperty returns, with a nil
\* error, the value the int and string segments lead to from the root (the root for
\* the empty path), unless that value is null and ErrorOnNull is among the leading
\* options, when it returns a NullError; a typed accessor returns that value when it
\* is of the requested kind, GetInt and GetFloat its conversion when the number's
\* text is representable (an integer of at most 18 digits, a decimal of at most 15
\* characters); and the same call made again on the same tree returns the same.
C10_ValidPath ==
  /\ (pc = "done" /\ Resolves) =>
       /\ fn = "GetProperty" =>
            IF Target = Null /\ Given(ErrorOnNull)
              THEN out = [res |-> Null, err |-> NullError(LastKeyString(keys))]
              ELSE out = [res |-> Target, err |-> NoError]
       /\ (fn = "GetProperty" /\ keys = <<>>) => out = [res |-> root, err |-> NoError]
       /\ (fn = "GetArray" /\ Target.kind = "array")
            => out = [res |-> [go |-> "slice", isNil |-> FALSE, elems |-> Target.elems],
                      err |-> NoError]
       /\ (fn = "GetNumber" /\ Target.kind = "number")
            => out = [res |-> [go |-> "Number", text |-> Target.text], err |-> NoError]
       /\ (fn = "GetString" /\ Target.kind = "string")
            => out = [res |-> [go |-> "string", s |-> Target.s], err |-> NoError]
       /\ (fn = "GetBool" /\ Target.kind = "bool")
            => out = [res |-> [go |-> "bool", b |-> Target.b], err |-> NoError]
       /\ (fn = "GetInt" /\ Target.kind = "number" /\ IsIntegerText(Target.text)
             /\ Len(Target.text) <= 18)
            => out = [res |-> [go |-> "int64", neg |-> FALSE, mag |-> Target.text],
                      err |-> NoError]
       /\ (fn = "GetFloat" /\ Target.kind = "number" /\ IsDecimalText(Target.text))
            => /\ out.err = NoError
               /\ out.res.class = "finite"
               /\ IsIntegerText(Target.text)
                    => /\ ~out.res.neg /\ out.res.exp >= 0
                       /\ out.res.mant \o [j \in 1..out.res.exp |-> "0"] = Target.text
       /\ (root = testData /\ fn = "GetString"
             /\ keys = <<StrKey("data"), StrKey("subData"), StrKey("array"), IntKey(0),
                         StrKey("str")>>)
            => out.res.s = "a string"
       /\ (root = testData /\ fn = "GetInt" /\ keys = <<StrKey("array"), IntKey(1)>>)
            => out.res = [go |-> "int64", neg |-> FALSE, mag |-> <<"2">>]
       /\ (root = testData /\ fn = "GetFloat"
             /\ keys = <<StrKey("data"), StrKey("subData"), StrKey("array"), IntKey(2)>>)
            => out.res = [go |-> "float64", class |-> "finite", neg |-> FALSE,
                          mant |-> <<"1","2","3","4">>, exp |-> -2]
  /\ (pc = "done" /\ round = 2) => out = first

\* GetProperty, called a second time with a leading option and three valid keys, has
\* returned the second element of the README's array
C10_Witness ==
  /\ pc = "done" /\ fn = "GetProperty" /\ round = 2 /\ root = readmeData
  /\ keys = <<OptKey(ErrorOnNull), StrKey("resp"), StrKey("a"), IntKey(1)>>
  /\ out = [res |-> Num(<<"2">>), err |-> NoError]


(* ---------------------------------------------------------------- C11 --- *)
\* C11: a segment that is neither a string, an int nor an Option, met at position j
\* after every earlier segment resolved, fails the call with the KeyError "Not int
\* or string" at Idx j; the loop stops at it and no accessor returns a nil error.
C11_UnsupportedSegment ==
  pc \in {"ret", "done"} =>
    \A j \in 0..(Len(keys) - 1) :
      (~IsKey(keys[j + 1]) /\ keys[j + 1].t # "option" /\ Before(j).ok)
        => /\ i = j
           /\ err.type = "KeyError" /\ err.Msg = "Not int or string" /\ err.Idx = j
           /\ res = Null
           /\ pc = "done" => out.err = err

\* GetBool on the test document's ["data", true], the call of TestIncorrectPath
C11_Witness ==
  /\ pc = "done" /\ fn = "GetBool" /\ root = testData
  /\ keys = <<StrKey("data"), BoolKey>>
  /\ out.err.type = "KeyError" /\ out.err.Msg = "Not int or string" /\ out.err.Idx = 1

====
